---- MODULE Spec2Model ----
(***************************************************************************)
(* Server side of the synapse TCP replication stream.                      *)
(*                                                                         *)
(* The repository holds the component in two files:                        *)
(*   synapse/replication/tcp_resource.py   protocol, streamer and streams  *)
(*   synapse/replication/tcp/resource.py   the streamer, with batching     *)
(* The protocol (ReplicationStreamProtocol) and the streams (Stream) are   *)
(* modelled from tcp_resource.py.  The streamer is modelled from both:     *)
(* the variable impl, fixed in Init, says which file's streamer runs.      *)
(*                                                                         *)
(* Twisted runs everything on one reactor thread: a step of the model is   *)
(* the code that runs between two suspension points (a yield on a          *)
(* Deferred that has not fired yet).                                       *)
(***************************************************************************)
EXTENDS Integers, Sequences, FiniteSets, TLC

(* ------------------------------ bounds -------------------------------- *)

\* Highest token the store hands out on the first stream.
MaxToken == 2

\* Highest token the store hands out on the other streams.
MaxOtherToken == 1

\* Highest store position at construction of the streamer.
MaxInitToken == 0

\* Connections accepted by the factory.
NumConns == 2

\* REPLICATE lines received, over all connections.
MaxSubs == 2

\* REPLICATE lines received, over all connections, in a run that loses a
\* connection.
MaxSubsWithLoss == 1

(* --------------------------- program constants ------------------------ *)

\* tcp_resource.py:40 has 10000; the threshold is scaled down so that the
\* result sizes below it, at it and at the fetch limit are all enumerated.
MAX_EVENTS_BEHIND == 3

RDATA == "RDATA"

POSITION == "POSITION"

ERROR == "ERROR"

\* ReplicationStreamer.streams, in the order of the list (the first two).
StreamList == <<"events", "backfill">>

StreamNames == {StreamList[i] : i \in 1..Len(StreamList)}

Conns == 1..NumConns

MaxTokenOf(s) == IF s = StreamList[1] THEN MaxToken ELSE MaxOtherToken

\* The stream names clients put in REPLICATE lines: the first stream, and a
\* name that is no stream.
ClientStreams == {StreamList[1], "bogus"}

TCP_RESOURCE == "tcp_resource.py"

TCP_PACKAGE == "tcp/resource.py"

(* ------------------------------ the store ----------------------------- *)

\* Number of rows the store holds under token t of stream s: consecutive rows
\* may share a token.  On the first stream the windows (0,1], (1,2] and (0,2]
\* hold 1, 2 and 3 rows: two windows below MAX_EVENTS_BEHIND that follow one
\* another, and one of exactly that many.  On the other streams a token holds
\* more rows than the fetch limit.
RowsAt(s, t) ==
    IF s = StreamList[1]
    THEN (IF t % 2 = 0 THEN 2 ELSE 1)
    ELSE MAX_EVENTS_BEHIND + 2

RECURSIVE RowsBetween(_, _, _)
\* The rows of stream s with token in (from_token, to_token], ascending; a
\* row is <<token, column>>, the column a value no other row of s has.
RowsBetween(s, from_token, to_token) ==
    IF to_token <= from_token
    THEN <<>>
    ELSE RowsBetween(s, from_token, to_token - 1)
             \o [k \in 1..RowsAt(s, to_token) |-> <<to_token, 10 * to_token + k>>]

Min(a, b) == IF a <= b THEN a ELSE b

\* store.get_all_new_*_rows(from_token, current_token, limit) of stream s
update_function(s, from_token, current_token, limit) ==
    LET all == RowsBetween(s, from_token, current_token)
    IN  SubSeq(all, 1, Min(limit, Len(all)))

(* ------------------------------ encodings ----------------------------- *)

\* Decimal strings of the tokens a client can name.
Digits == <<"0", "1", "2", "3", "4", "5">>

\* Tokens as they arrive in a REPLICATE line: NOW, a malformed token, and the
\* numerals below MaxToken.
WireTokens == {"NOW", "x"} \cup {Digits[i] : i \in 1..MaxToken}

IsNumeral(str) == \E i \in 1..Len(Digits) : Digits[i] = str

\* long(from_token): defined on numerals only (ValueError otherwise).
long(str) == (CHOOSE i \in 1..Len(Digits) : Digits[i] = str) - 1

\* json.dumps(row[1:])
json_dumps(cols) == <<"json", cols>>

\* updates = [(row[0], json.dumps(row[1:])) for row in rows]
Updates(rows) == [i \in 1..Len(rows) |-> <<rows[i][1], json_dumps(Tail(rows[i]))>>]

\* The test of get_updates_since made against the fetch limit instead.
FallenBehindLate(rows) == Len(rows) >= MAX_EVENTS_BEHIND + 1

\* Stream.get_updates_since: if len(rows) >= MAX_EVENTS_BEHIND: raise
FallenBehind(rows) == Len(rows) >= MAX_EVENTS_BEHIND

\* The token of a row that does not end its batch: None, which is no token
\* of the store.
NoToken == -1

\* _batch_updates without the test on the next row: every row keeps its
\* token.
batch_updates_keep(updates) == updates

\* _batch_updates(updates)
batch_updates(updates) ==
    IF updates = <<>>
    THEN <<>>
    ELSE [i \in 1..Len(updates) |->
            IF i < Len(updates) /\ updates[i][1] = updates[i + 1][1]
            THEN <<NoToken, updates[i][2]>>
            ELSE updates[i]]

(* ------------------------------- state -------------------------------- *)

VARIABLES
    impl,                \* which file's ReplicationStreamer runs
    store_pos,           \* stream -> current_token() of the store
    last_token,          \* Stream.last_token
    upto_token,          \* Stream.upto_token
    is_looping,          \* ReplicationStreamer.is_looping
    pending_updates,     \* ReplicationStreamer.pending_updates
    loops,               \* on_notifier_poke invocations suspended at a fetch
    connections,         \* ReplicationStreamer.connections
    status,              \* conn -> "unborn", "open" or "lost"
    closing,             \* conn -> transport.loseConnection() was called
    replication_streams, \* conn -> ReplicationStreamProtocol.replication_streams
    connecting_streams,  \* conn -> ReplicationStreamProtocol.connecting_streams
    pending_rdata,       \* conn -> stream -> ReplicationStreamProtocol.pending_rdata
    sent,                \* conn -> the lines handed to sendLine, in order
    inflight,            \* conn -> on_REPLICATE invocations suspended at the fetch
    nlines,              \* conn -> REPLICATE lines received so far
    syncs_cleared,       \* conn -> calls of update_external_syncs_clear(conn_id)
    faulted,             \* conn -> a call of stream_update raised on it
    owed,                \* a wake-up arrived during a pass and no pass started since
    event,               \* what the last step did
    batch                \* a call of _batch_updates on its own: argument and result

\* What no step of the server changes.
fixed == <<impl, batch>>

streamer_vars == <<fixed, store_pos, last_token, upto_token, is_looping,
                   pending_updates, loops, owed>>

conn_vars == <<connections, status, closing, replication_streams,
               connecting_streams, pending_rdata, sent, inflight, nlines,
               syncs_cleared, faulted>>

vars == <<streamer_vars, conn_vars, event>>

NumStreams == Len(StreamList)

\* The shape of event; kind "" is no event.
NoEvent ==
    [kind |-> "", conn |-> 0, stream |-> "", idx |-> 0, sub |-> 0,
     from_token |-> 0, current_token |-> 0, nrows |-> 0, fetched |-> FALSE,
     updates |-> <<>>, fault |-> <<0, 0>>, live |-> <<>>, before |-> 0,
     restarted |-> FALSE, now |-> FALSE]

\* A line handed to sendLine; via and sub say which code sent it, and since
\* is, on the POSITION of a subscribe, the token the client asked to be
\* served from.
Line(cmd, stream, token, data, via, sub) ==
    [cmd |-> cmd, stream |-> stream, token |-> token, data |-> data,
     via |-> via, sub |-> sub, since |-> 0]

Range(seq) == {seq[i] : i \in 1..Len(seq)}

Remove(seq, x) == SelectSeq(seq, LAMBDA y : y # x)

RemoveAt(seq, k) == [i \in 1..(Len(seq) - 1) |-> IF i < k THEN seq[i] ELSE seq[i + 1]]

\* A call of _batch_updates: the argument, and the result once it returned.
NoCall == [arg |-> <<>>, ret |-> <<>>, returned |-> FALSE]

\* The state after construction, but for the implementation, the position of
\* the store and the call of _batch_updates to look at.
Constructed ==
    /\ last_token = store_pos
    /\ upto_token = store_pos
    /\ is_looping = FALSE
    /\ pending_updates = FALSE
    /\ loops = <<>>
    /\ connections = <<>>
    /\ status = [c \in Conns |-> "unborn"]
    /\ closing = [c \in Conns |-> FALSE]
    /\ replication_streams = [c \in Conns |-> {}]
    /\ connecting_streams = [c \in Conns |-> {}]
    /\ pending_rdata = [c \in Conns |-> [s \in StreamNames |-> <<>>]]
    /\ sent = [c \in Conns |-> <<>>]
    /\ inflight = [c \in Conns |-> {}]
    /\ nlines = [c \in Conns |-> 0]
    /\ syncs_cleared = [c \in Conns |-> 0]
    /\ faulted = [c \in Conns |-> FALSE]
    /\ owed = FALSE
    /\ event = NoEvent

Init ==
    /\ impl \in {TCP_RESOURCE, TCP_PACKAGE}
    /\ store_pos \in [StreamNames -> 0..MaxInitToken]
    /\ batch = NoCall
    /\ Constructed

(* ------------------------------ the store ----------------------------- *)

\* A write path of the server appends rows under the next token.
StoreAppend(s) ==
    /\ store_pos[s] < MaxTokenOf(s)
    /\ store_pos' = [store_pos EXCEPT ![s] = @ + 1]
    /\ event' = NoEvent
    /\ UNCHANGED <<fixed, last_token, upto_token, is_looping, pending_updates,
                   loops, owed, conn_vars>>

(* ------------------------------ Stream -------------------------------- *)

\* Stream.advance_current_token, for every stream of self.streams.
advance_current_token == [s \in StreamNames |-> store_pos[s]]

\* Stream.get_updates with the assignment moved into a finally clause.
get_updates_always(s, current_token, raised) == current_token

\* Stream.get_updates: last_token after the call; the assignment follows the
\* yield, so an exception of get_updates_since skips it.
get_updates(s, current_token, raised) ==
    IF raised THEN last_token[s] ELSE current_token

\* get_updates_since without its first test.
IsNowNever(token) == FALSE

\* Stream.get_updates_since: if from_token in ("NOW", "now")
IsNow(token) == token \in {"NOW", "now"}

\* get_updates_since recording the token it resolved, as get_updates does.
get_updates_since_recording(s, upto) ==
    IF s \in StreamNames THEN [last_token EXCEPT ![s] = upto[s]] ELSE last_token

\* Stream.get_updates_since: last_token of every stream after the call; it
\* reads upto_token and assigns no attribute of the stream.
get_updates_since_last(s, upto) == last_token

\* Stream.get_updates_since: if from_token == current_token, after
\* long(from_token); it then returns ([], upto_token) without a fetch.
ReturnsAtOnce(from_token, current_token) == from_token = current_token

(* --------------------- ReplicationStreamer: fan-out ------------------- *)

Pos(conns, c) == CHOOSE k \in 1..Len(conns) : conns[k] = c

\* The call stream_update(update i, conn c) is made before the call b.
\* tcp_resource.py loops over the updates, then the connections;
\* tcp/resource.py over the connections, then the updates.
CallBefore(conns, a, b) ==
    IF impl = TCP_RESOURCE
    THEN a[1] < b[1] \/ (a[1] = b[1] /\ Pos(conns, a[2]) < Pos(conns, b[2]))
    ELSE Pos(conns, a[2]) < Pos(conns, b[2]) \/ (a[2] = b[2] /\ a[1] < b[1])

AllCalls(conns, n) == {<<i, c>> : i \in 1..n, c \in Range(conns)}

\* The fan-out without its try/except: the call that raises ends the loops.
FanOutCallsUncaught(conns, n, fault) ==
    IF fault = <<0, 0>>
    THEN AllCalls(conns, n)
    ELSE {a \in AllCalls(conns, n) : CallBefore(conns, a, fault)}

\* The calls of stream_update that take effect when the call fault raises
\* (<<0, 0>>: none raises): the exception is caught inside the inner loop.
FanOutCalls(conns, n, fault) == AllCalls(conns, n) \ {fault}

RECURSIVE KeptFrom(_, _, _, _)
\* The updates from index i on whose call for connection c takes effect.
KeptFrom(updates, i, c, calls) ==
    IF i > Len(updates)
    THEN <<>>
    ELSE (IF <<i, c>> \in calls THEN <<updates[i]>> ELSE <<>>)
             \o KeptFrom(updates, i + 1, c, calls)

RdataLines(s, updates, via, sub) ==
    [i \in 1..Len(updates) |-> Line(RDATA, s, updates[i][1], updates[i][2], via, sub)]

\* What the poke loop hands to stream_update: tcp/resource.py batches.
WireUpdates(updates) ==
    IF impl = TCP_PACKAGE THEN batch_updates(updates) ELSE updates

\* ReplicationStreamProtocol.stream_update, for the updates whose call on
\* connection c takes effect: the new sent[c].
stream_update_sent(c, s, got) ==
    IF s \in replication_streams[c]
    THEN sent[c] \o RdataLines(s, got, "live", 0)
    ELSE sent[c]

\* stream_update without its elif branch: nothing is buffered.
stream_update_unbuffered(c, s, got) == pending_rdata[c][s]

\* ReplicationStreamProtocol.stream_update: the new pending_rdata[c][s].
stream_update_pending(c, s, got) ==
    IF s \notin replication_streams[c] /\ s \in connecting_streams[c]
    THEN pending_rdata[c][s] \o got
    ELSE pending_rdata[c][s]

\* for update in updates: for conn in self.connections: conn.stream_update
FanOut(s, updates, fault) ==
    LET wire == WireUpdates(updates)
        calls == FanOutCalls(connections, Len(wire), fault)
    IN  /\ sent' = [c \in Conns |->
                      IF c \in Range(connections)
                      THEN stream_update_sent(c, s, KeptFrom(wire, 1, c, calls))
                      ELSE sent[c]]
        /\ pending_rdata' = [c \in Conns |->
                      IF c \in Range(connections)
                      THEN [pending_rdata[c] EXCEPT
                              ![s] = stream_update_pending(c, s, KeptFrom(wire, 1, c, calls))]
                      ELSE pending_rdata[c]]

\* The calls of stream_update that can raise: those that reach send_command.
Faults(s, n) ==
    {<<0, 0>>} \cup {<<i, c>> \in AllCalls(connections, n) : s \in replication_streams[c]}

(* -------------------- ReplicationStreamer: poke loop ------------------ *)

\* The first stream from index i on that get_updates has to fetch for
\* (last_token # upto_token), 0 when there is none.
FirstPending(i, last, upto) ==
    LET P == {j \in i..NumStreams : last[StreamList[j]] # upto[StreamList[j]]}
    IN  IF P = {} THEN 0 ELSE CHOOSE j \in P : \A k \in P : j <= k

\* An invocation of on_notifier_poke suspended at the fetch of stream idx:
\* get_updates passes last_token, get_updates_since reads upto_token before
\* the yield.
Fetch(j, last, upto) ==
    [idx |-> j, from_token |-> last[StreamList[j]],
     current_token |-> upto[StreamList[j]]]

\* on_notifier_poke without its finally clause.
FinishWithoutFinally(others) ==
    /\ loops' = others
    /\ UNCHANGED <<pending_updates, is_looping>>

\* The finally clause of on_notifier_poke.
Finish(others) ==
    /\ loops' = others
    /\ pending_updates' = FALSE
    /\ is_looping' = FALSE

\* One turn of the while loop up to its first fetch: advance every stream,
\* clear pending_updates, service the streams in order.
StartPass(others, last) ==
    LET upto == advance_current_token
        j == FirstPending(1, last, upto)
    IN  /\ upto_token' = upto
        /\ owed' = FALSE
        /\ IF j # 0
           THEN /\ loops' = Append(others, Fetch(j, last, upto))
                /\ pending_updates' = FALSE
                /\ is_looping' = TRUE
           ELSE Finish(others)

\* The for loop calling advance_current_token again before each fetch.
ContinueAdvancing(others, last, i) ==
    LET upto == advance_current_token
        j == FirstPending(i, last, upto)
    IN  IF j # 0
        THEN /\ loops' = Append(others, Fetch(j, last, upto))
             /\ upto_token' = upto
             /\ UNCHANGED <<pending_updates, is_looping, owed>>
        ELSE IF pending_updates
        THEN StartPass(others, last)
        ELSE /\ Finish(others)
             /\ UNCHANGED <<upto_token, owed>>

\* The for loop from stream i on, then the test of pending_updates.
Continue(others, last, i) ==
    LET j == FirstPending(i, last, upto_token)
    IN  IF j # 0
        THEN /\ loops' = Append(others, Fetch(j, last, upto_token))
             /\ UNCHANGED <<upto_token, pending_updates, is_looping, owed>>
        ELSE IF pending_updates
        THEN StartPass(others, last)
        ELSE /\ Finish(others)
             /\ UNCHANGED <<upto_token, owed>>

\* The guard of on_notifier_poke dropped.
NeverLooping == FALSE

\* if self.is_looping
AlreadyLooping == is_looping

\* tcp/resource.py: if not self.connections: return
NothingListening == impl = TCP_PACKAGE /\ connections = <<>>

\* What event records of a wake-up: nothing, unless the step before it was the
\* failure of a pass; then the kind given and the failed fetch.
AfterFailure(kind) ==
    IF event.kind = "poke_fetch_failed"
    THEN [NoEvent EXCEPT !.kind = kind, !.stream = event.stream, !.idx = event.idx,
            !.from_token = event.from_token, !.current_token = event.current_token]
    ELSE NoEvent

\* notifier_listener wakes up and calls on_notifier_poke.
on_notifier_poke ==
    /\ \/ /\ NothingListening
          /\ owed' = (owed \/ is_looping)
          /\ event' = AfterFailure("poke_ignored")
          /\ UNCHANGED <<last_token, upto_token, is_looping, pending_updates, loops>>
       \/ /\ ~NothingListening
          /\ AlreadyLooping
          /\ pending_updates' = TRUE
          /\ owed' = TRUE
          /\ event' = NoEvent
          /\ UNCHANGED <<last_token, upto_token, is_looping, loops>>
       \/ /\ ~NothingListening
          /\ ~AlreadyLooping
          /\ StartPass(loops, last_token)
          /\ event' = AfterFailure("poke_retry")
          /\ UNCHANGED last_token
    /\ UNCHANGED <<fixed, store_pos, conn_vars>>

\* The fetch of a suspended pass raises (storage failure): the exception
\* leaves get_updates, the loops and on_notifier_poke through its finally.
PokeFetchFails(k) ==
    LET rec == loops[k]
        s == StreamList[rec.idx]
    IN  /\ last_token' = [last_token EXCEPT ![s] = get_updates(s, rec.current_token, TRUE)]
        /\ Finish(RemoveAt(loops, k))
        /\ event' = [NoEvent EXCEPT !.kind = "poke_fetch_failed", !.stream = s,
                       !.idx = rec.idx, !.from_token = rec.from_token,
                       !.current_token = rec.current_token]
        /\ UNCHANGED <<fixed, store_pos, upto_token, owed, conn_vars>>

\* The fetch of a suspended pass returns its rows: fallen behind, or the
\* fan-out and the rest of the pass.
PokeFetchReturns(k, fault) ==
    LET rec == loops[k]
        s == StreamList[rec.idx]
        rows == update_function(s, rec.from_token, rec.current_token,
                                MAX_EVENTS_BEHIND + 1)
        updates == Updates(rows)
        ev == [NoEvent EXCEPT !.stream = s, !.idx = rec.idx,
                 !.from_token = rec.from_token, !.current_token = rec.current_token,
                 !.nrows = Len(rows), !.fetched = TRUE]
        last == [last_token EXCEPT ![s] = get_updates(s, rec.current_token, FALSE)]
    IN  /\ IF FallenBehind(rows)
           THEN /\ fault = <<0, 0>>
                /\ last_token' = [last_token EXCEPT
                                    ![s] = get_updates(s, rec.current_token, TRUE)]
                /\ Finish(RemoveAt(loops, k))
                /\ event' = [ev EXCEPT !.kind = "poke_fetch_failed"]
                /\ UNCHANGED <<upto_token, owed, sent, pending_rdata, faulted>>
           ELSE /\ fault \in Faults(s, Len(updates))
                /\ last_token' = last
                /\ FanOut(s, updates, fault)
                /\ faulted' = [c \in Conns |-> faulted[c] \/ fault[2] = c]
                /\ Continue(RemoveAt(loops, k), last, rec.idx + 1)
                /\ event' = [ev EXCEPT !.kind = "poke_fan_out",
                               !.updates = WireUpdates(updates), !.fault = fault,
                               !.live = connections,
                               !.restarted = (FirstPending(rec.idx + 1, last, upto_token) = 0
                                              /\ pending_updates)]
        /\ UNCHANGED <<fixed, store_pos, connections, status, closing,
                       replication_streams, connecting_streams, inflight, nlines,
                       syncs_cleared>>

(* ---------------------- ReplicationStreamProtocol --------------------- *)

RECURSIVE SumUpTo(_, _)
SumUpTo(f, n) == IF n = 0 THEN 0 ELSE f[n] + SumUpTo(f, n - 1)

\* REPLICATE lines received so far, over all connections.
SubsSoFar == SumUpTo(nlines, NumConns)

\* Connection d was cut by send_error of lineReceived or on_USER_SYNC.
CutByBadLine(d) ==
    /\ closing[d]
    /\ sent[d] # <<>>
    /\ sent[d][Len(sent[d])].via = "line"

\* The REPLICATE lines the clients may still send: MaxSubs in a run where
\* every connection stays, MaxSubsWithLoss in a run where one was lost or cut
\* after a line that is no command.
SubsLeft ==
    IF \E d \in Conns : status[d] = "lost" \/ CutByBadLine(d)
    THEN SubsSoFar < MaxSubsWithLoss
    ELSE SubsSoFar < MaxSubs

\* ReplicationStreamProtocolFactory.buildProtocol: __init__ appends the new
\* protocol to streamer.connections (tcp/resource.py: new_connection).
\* Connections are numbered in the order they are accepted.
buildProtocol(c) ==
    /\ status[c] = "unborn"
    /\ \A d \in Conns : d < c => status[d] # "unborn"
    /\ status' = [status EXCEPT ![c] = "open"]
    /\ connections' = Append(connections, c)
    /\ event' = NoEvent
    /\ UNCHANGED <<streamer_vars, closing, replication_streams, connecting_streams,
                   pending_rdata, sent, inflight, nlines, syncs_cleared, faulted>>

\* Neither disconnect path telling the presence handler.
syncs_clear_never(c) == syncs_cleared

\* The calls of presence_handler.update_external_syncs_clear after the
\* disconnect of c: lost_connection of tcp/resource.py makes one,
\* connectionLost of tcp_resource.py makes none.
syncs_clear(c) ==
    IF impl = TCP_PACKAGE
    THEN [syncs_cleared EXCEPT ![c] = @ + 1]
    ELSE syncs_cleared

\* ReplicationStreamProtocol.connectionLost (tcp/resource.py: lost_connection)
connectionLost(c) ==
    /\ status[c] = "open"
    /\ SubsSoFar <= MaxSubsWithLoss
    /\ status' = [status EXCEPT ![c] = "lost"]
    /\ connections' = Remove(connections, c)
    /\ syncs_cleared' = syncs_clear(c)
    /\ event' = NoEvent
    /\ UNCHANGED <<streamer_vars, closing, replication_streams, connecting_streams,
                   pending_rdata, sent, inflight, nlines, faulted>>

\* pending_rdata.pop(stream_name, []) of connection c: the popped list.
Popped(c, s) == IF s \in StreamNames THEN pending_rdata[c][s] ELSE <<>>

\* The token a subscribe serves from: from_token of the catch-up fetch; a
\* subscribe that returns at once (NOW, or a token equal to upto_token) serves
\* from the upto_token it reports.
Since(ev, current_token) == IF ev.fetched THEN ev.from_token ELSE current_token

\* on_REPLICATE from the return of get_stream_updates on, without exception:
\* history, the buffered rows, POSITION; then the stream is replicating.
Subscribed(c, s, h, updates, current_token, repl, ev) ==
    /\ sent' = [sent EXCEPT ![c] = @ \o RdataLines(s, updates, "hist", h)
                                     \o RdataLines(s, Popped(c, s), "flush", h)
                                     \o <<[Line(POSITION, s, current_token, "", "sub", h)
                                            EXCEPT !.since = Since(ev, current_token)]>>]
    /\ pending_rdata' = [pending_rdata EXCEPT ![c] =
                           [t \in StreamNames |-> IF t = s THEN <<>> ELSE @[t]]]
    /\ replication_streams' = [replication_streams EXCEPT ![c] = repl \cup {s}]
    /\ connecting_streams' = [connecting_streams EXCEPT ![c] = @ \ {s}]
    /\ UNCHANGED closing
    /\ event' = [ev EXCEPT !.kind = "subscribed", !.conn = c, !.stream = s,
                   !.sub = h, !.current_token = current_token,
                   !.updates = updates, !.before = Len(sent[c])]

\* on_REPLICATE when get_stream_updates raises: send_error (ERROR, then
\* transport.loseConnection), and the finally clause.
SubscribeFailed(c, s, h, repl, ev) ==
    /\ sent' = [sent EXCEPT ![c] = Append(@, Line(ERROR, s, "", "", "sub", h))]
    /\ closing' = [closing EXCEPT ![c] = TRUE]
    /\ replication_streams' = [replication_streams EXCEPT ![c] = repl]
    /\ connecting_streams' = [connecting_streams EXCEPT ![c] = @ \ {s}]
    /\ UNCHANGED pending_rdata
    /\ event' = [ev EXCEPT !.kind = "subscribe_failed", !.conn = c, !.stream = s,
                   !.sub = h, !.before = Len(sent[c])]

\* get_stream_updates(stream_name, token) reaches the yield of
\* get_updates_since.
Suspends(s, token) ==
    /\ s \in StreamNames
    /\ IsNumeral(token)
    /\ ~ReturnsAtOnce(long(token), upto_token[s])

\* on_REPLICATE without its first statement.
discard_skipped(c, s) == replication_streams[c]

\* on_REPLICATE: self.replication_streams.discard(stream_name)
discard(c, s) == replication_streams[c] \ {s}

\* lineReceived of "REPLICATE <stream_name> <token>": on_REPLICATE up to its
\* first suspension, or to its end when get_stream_updates does not suspend.
on_REPLICATE(c, s, token) ==
    LET h == nlines[c] + 1
        ev == NoEvent
        repl == discard(c, s)
    IN  /\ status[c] = "open"
        /\ ~closing[c]
        /\ SubsLeft
        /\ \A d \in Conns : d < c => nlines[d] > 0
        /\ nlines' = [nlines EXCEPT ![c] = h]
        /\ IF s \notin StreamNames
           THEN \* get_stream_updates: unknown stream
                SubscribeFailed(c, s, h, repl, ev)
           ELSE IF IsNow(token)
           THEN Subscribed(c, s, h, <<>>, upto_token[s], repl,
                           [ev EXCEPT !.now = TRUE])
           ELSE IF ~IsNumeral(token)
           THEN \* long(from_token) raises ValueError
                SubscribeFailed(c, s, h, repl, ev)
           ELSE IF ReturnsAtOnce(long(token), upto_token[s])
           THEN Subscribed(c, s, h, <<>>, upto_token[s], repl, ev)
           ELSE /\ replication_streams' = [replication_streams EXCEPT ![c] = repl]
                /\ connecting_streams' = [connecting_streams EXCEPT ![c] = @ \cup {s}]
                /\ inflight' = [inflight EXCEPT ![c] = @ \cup
                                  {[sub |-> h, stream |-> s, from_token |-> long(token),
                                    current_token |-> upto_token[s],
                                    mark |-> Len(sent[c])]}]
                /\ event' = NoEvent
                /\ UNCHANGED <<sent, pending_rdata, closing>>
        /\ Suspends(s, token) \/ UNCHANGED inflight
        /\ last_token' = get_updates_since_last(s, upto_token)
        /\ UNCHANGED <<fixed, store_pos, upto_token, is_looping, pending_updates,
                       loops, owed, connections, status, syncs_cleared, faulted>>

\* The catch-up fetch of a suspended on_REPLICATE raises (storage failure).
CatchupFails(c, rec) ==
    /\ rec \in inflight[c]
    /\ inflight' = [inflight EXCEPT ![c] = @ \ {rec}]
    /\ SubscribeFailed(c, rec.stream, rec.sub, replication_streams[c],
                       [NoEvent EXCEPT !.from_token = rec.from_token,
                          !.current_token = rec.current_token])
    /\ UNCHANGED <<streamer_vars, connections, status, nlines, syncs_cleared,
                   faulted>>

\* The catch-up fetch of a suspended on_REPLICATE returns its rows.
CatchupReturns(c, rec) ==
    LET rows == update_function(rec.stream, rec.from_token, rec.current_token,
                                MAX_EVENTS_BEHIND + 1)
        ev == [NoEvent EXCEPT !.from_token = rec.from_token, !.nrows = Len(rows),
                 !.fetched = TRUE, !.current_token = rec.current_token]
    IN  /\ rec \in inflight[c]
        /\ inflight' = [inflight EXCEPT ![c] = @ \ {rec}]
        /\ IF FallenBehind(rows)
           THEN SubscribeFailed(c, rec.stream, rec.sub, replication_streams[c], ev)
           ELSE Subscribed(c, rec.stream, rec.sub, Updates(rows), rec.current_token,
                           replication_streams[c], ev)
        /\ last_token' = get_updates_since_last(rec.stream, upto_token)
        /\ UNCHANGED <<fixed, store_pos, upto_token, is_looping, pending_updates,
                       loops, owed, connections, status, nlines, syncs_cleared,
                       faulted>>

\* Inbound lines that are no well-formed command of the protocol: an unknown
\* command, a line with no space, a USER_SYNC with a state that is neither
\* start nor end, a USER_SYNC that reaches streamer.on_user_sync, and a
\* REPLICATE with no token.
BadLines == {"FROB x", "NAME", "USER_SYNC away @u:hs", "USER_SYNC start @u:hs",
             "REPLICATE events"}

\* lineReceived: cmd not in VALID_CLIENT_COMMANDS, and on_USER_SYNC: state
\* not in ("start", "end").  Both call send_error.
SendsError(line) == line \in {"FROB x", "USER_SYNC away @u:hs"}

\* An exception leaves lineReceived: line.split(" ", 1) of a line with no
\* space does not unpack (ValueError); on_USER_SYNC calls
\* self.streamer.on_user_sync(user_id, state), which ReplicationStreamer of
\* tcp_resource.py does not define and that of tcp/resource.py defines with
\* three parameters.
RaisesOutOfLineReceived(line) == line \in {"NAME", "USER_SYNC start @u:hs"}

\* The exception is raised inside on_REPLICATE before its try block
\* (stream_name, token = line.split(" ", 1)): inlineCallbacks turns it into a
\* failed Deferred that nothing looks at.
RaisesInsideDeferred(line) == line = "REPLICATE events"

\* send_error(error_string): ERROR, then transport.loseConnection().
send_error(c, h) ==
    /\ sent' = [sent EXCEPT ![c] = Append(@, Line(ERROR, "", "", "", "line", h))]
    /\ closing' = [closing EXCEPT ![c] = TRUE]

\* lineReceived of a line of BadLines.  An exception that leaves lineReceived
\* reaches the reactor, which drops the connection (connectionLost) without
\* the protocol having sent anything.
lineReceived(c, line) ==
    /\ status[c] = "open"
    /\ ~closing[c]
    /\ SubsSoFar <= MaxSubsWithLoss
    /\ event' = [NoEvent EXCEPT !.kind = "bad_line", !.conn = c,
                   !.before = Len(sent[c])]
    /\ IF SendsError(line)
       THEN /\ send_error(c, 0)
            /\ UNCHANGED <<status, connections, syncs_cleared>>
       ELSE IF RaisesOutOfLineReceived(line)
       THEN /\ status' = [status EXCEPT ![c] = "lost"]
            /\ connections' = Remove(connections, c)
            /\ syncs_cleared' = syncs_clear(c)
            /\ UNCHANGED <<sent, closing>>
       ELSE /\ RaisesInsideDeferred(line)
            /\ UNCHANGED <<sent, closing, status, connections, syncs_cleared>>
    /\ UNCHANGED <<streamer_vars, replication_streams, connecting_streams,
                   pending_rdata, inflight, nlines, faulted>>

(* --------------------------- specification ---------------------------- *)

InflightRecs == UNION {inflight[c] : c \in Conns}

Next ==
    \/ \E s \in StreamNames : StoreAppend(s)
    \/ on_notifier_poke
    \/ \E k \in 1..Len(loops) : PokeFetchFails(k)
    \/ \E k \in 1..Len(loops) :
         \E fault \in {<<0, 0>>} \cup ((1..(MAX_EVENTS_BEHIND + 1)) \X Conns) :
           PokeFetchReturns(k, fault)
    \/ \E c \in Conns : buildProtocol(c)
    \/ \E c \in Conns : connectionLost(c)
    \/ \E c \in Conns, s \in ClientStreams, token \in WireTokens :
         on_REPLICATE(c, s, token)
    \/ \E c \in Conns, line \in BadLines : lineReceived(c, line)
    \/ \E c \in Conns : \E rec \in inflight[c] : CatchupFails(c, rec)
    \/ \E c \in Conns : \E rec \in inflight[c] : CatchupReturns(c, rec)

Spec == Init /\ [][Next]_vars

(* ----------------------- _batch_updates on its own --------------------- *)

\* The longest list of updates handed to _batch_updates.
MaxBatchLen == 3

\* The largest token in such a list.
MaxBatchToken == 3

\* The rows of such a list.
BatchRows == {"a", "b"}

\* The example of the docstring of _batch_updates, with rows told apart.
DocExample == <<<<1, "a">>, <<1, "b">>, <<2, "c">>, <<3, "d">>, <<3, "e">>>>

\* The lists of (token, row) handed to _batch_updates: tokens in any order.
BatchArgs ==
    {<<>>, DocExample}
        \cup UNION {[1..k -> (1..MaxBatchToken) \X BatchRows] : k \in 1..MaxBatchLen}

InitBatch ==
    /\ impl = TCP_PACKAGE
    /\ store_pos = [s \in StreamNames |-> 0]
    /\ batch \in {[NoCall EXCEPT !.arg = u] : u \in BatchArgs}
    /\ Constructed

\* batched_updates = _batch_updates(updates)
CallBatchUpdates ==
    /\ ~batch.returned
    /\ batch' = [batch EXCEPT !.ret = batch_updates(batch.arg), !.returned = TRUE]
    /\ UNCHANGED <<impl, store_pos, last_token, upto_token, is_looping,
                   pending_updates, loops, owed, conn_vars, event>>

NextBatch == CallBatchUpdates

SpecBatch == InitBatch /\ [][NextBatch]_vars

(* ------------------------------- claims ------------------------------- *)

IsRdata(l) == l.cmd = RDATA

IsSuffix(a, b) ==
    /\ Len(a) <= Len(b)
    /\ SubSeq(b, Len(b) - Len(a) + 1, Len(b)) = a

FailedKinds == {"subscribe_failed", "poke_fetch_failed"}

\* C1: a connection that subscribed once to a stream is never sent the same
\* row (stream, token, payload) twice as RDATA, also when the poke loop
\* delivers the row while the catch-up fetch is in flight.
C1_RowSentOnce ==
    \A c \in Conns :
        nlines[c] <= 1 =>
            \A i, j \in 1..Len(sent[c]) :
                (i < j /\ IsRdata(sent[c][i]) /\ IsRdata(sent[c][j])) =>
                    ~ /\ sent[c][i].stream = sent[c][j].stream
                      /\ sent[c][i].token = sent[c][j].token
                      /\ sent[c][i].data = sent[c][j].data

\* C2: while a subscribe of connection c to stream S is between REPLICATE and
\* its POSITION (also a re-subscribe issued while an earlier one is in
\* flight), no row of the poke loop for S has been transmitted to c since the
\* REPLICATE was received: the historical rows of the subscribe go first.
C2_BufferedUntilPosition ==
    \A c \in Conns : \A rec \in inflight[c] :
        \A i \in (rec.mark + 1)..Len(sent[c]) :
            ~(sent[c][i].via = "live" /\ sent[c][i].stream = rec.stream)

TokenOrder == \A s \in StreamNames : last_token[s] <= upto_token[s]

\* The step is the advance step at the start of a pass: on_notifier_poke
\* finding no pass running, or the while loop going round after the last
\* fetch of a pass returned with pending_updates set.
PassStarts ==
    /\ \/ ~is_looping /\ loops = <<>>
       \/ /\ event'.kind = "poke_fan_out" /\ event'.restarted
          /\ pending_updates
          /\ Len(loops) = 1 /\ loops[1] \notin Range(loops')
    /\ upto_token' = advance_current_token

\* A fetch of the poke loop stays in flight over the step.
PokeFetchStays == \E k \in 1..Len(loops) : loops[k] \in Range(loops')

UptoOnlyAtPassStart ==
    /\ upto_token' # upto_token => PassStarts
    /\ PokeFetchStays => upto_token' = upto_token

\* C3 as amended: last_token <= upto_token in every state; upto_token changes
\* only in the advance step at the start of a poke pass, never while a fetch
\* of that pass is in flight.  (A catch-up fetch in flight does not hold the
\* advance step back.)
C3_TokenOrder == [](TokenOrder) /\ [][UptoOnlyAtPassStart]_vars

\* C3 as stated: ... and never while a catch-up fetch is in flight.
C3_AsStated ==
    [](TokenOrder)
        /\ [][UptoOnlyAtPassStart
               /\ (InflightRecs # {} => upto_token' = upto_token)]_vars

\* A pass has advanced upto_token past the value a catch-up fetch still in
\* flight read, and is suspended at its own fetch.
C3_Witness ==
    /\ loops # <<>>
    /\ \E s \in StreamNames : last_token[s] < upto_token[s]
    /\ \E rec \in InflightRecs : rec.current_token < upto_token[rec.stream]

\* C4: at most one invocation of on_notifier_poke is inside the loop, with at
\* most one fetch in flight, and is_looping says whether there is one; a
\* wake-up during a pass only sets pending_updates.
C4_SinglePass ==
    /\ Len(loops) <= 1
    /\ is_looping <=> Len(loops) = 1
    /\ pending_updates => is_looping

\* on_notifier_poke was called while a pass was suspended at a fetch.
C4_Witness == is_looping /\ pending_updates /\ Len(loops) = 1

\* C5: when no pass is running, no wake-up that arrived during a pass is
\* still waiting for the full pass it forces.
C5_NoWakeupDropped == ~is_looping => ~owed

\* The last step ended a subscribe whose catch-up fetch returned
\* MAX_EVENTS_BEHIND rows or more.
CatchupBehind ==
    /\ event.kind \in {"subscribed", "subscribe_failed"}
    /\ event.fetched
    /\ event.nrows >= MAX_EVENTS_BEHIND

\* C6: a subscribe whose catch-up fetch returns MAX_EVENTS_BEHIND rows or more
\* fails: it sends ERROR and nothing else (no RDATA, no POSITION), and the
\* stream ends in neither connecting_streams nor replication_streams.
C6_BehindSubscribeFails ==
    CatchupBehind =>
        LET c == event.conn
            s == event.stream
        IN  /\ event.kind = "subscribe_failed"
            /\ Len(sent[c]) = event.before + 1
            /\ sent[c][Len(sent[c])].cmd = ERROR
            /\ s \notin connecting_streams[c]
            /\ s \notin replication_streams[c]

\* What get_updates_since did with a fetch that came back, shared by C7 as
\* amended and as stated: the limit, and what a call that does not fail
\* returns (the fetched rows, with the upto_token read before the fetch).
FetchedResult ==
    /\ event.nrows = Min(MAX_EVENTS_BEHIND + 1,
                         Len(RowsBetween(event.stream, event.from_token,
                                         event.current_token)))
    /\ event.kind = "subscribed" =>
          /\ Len(event.updates) = event.nrows
          /\ sent[event.conn][Len(sent[event.conn])].cmd = POSITION
          /\ sent[event.conn][Len(sent[event.conn])].token = event.current_token
    /\ event.kind = "poke_fan_out" =>
          /\ Len(event.updates) = event.nrows
          /\ last_token[event.stream] = event.current_token

\* C7 as amended: get_updates_since fetches with limit MAX_EVENTS_BEHIND + 1
\* and fails as fallen behind exactly when the fetch returns
\* MAX_EVENTS_BEHIND rows or more (so also on exactly MAX_EVENTS_BEHIND rows);
\* on fewer rows it returns them with upto_token.
C7_BehindThreshold ==
    event.fetched =>
        /\ event.kind \in FailedKinds <=> event.nrows >= MAX_EVENTS_BEHIND
        /\ FetchedResult

\* C7 as stated: it fails exactly when the result has MAX_EVENTS_BEHIND + 1
\* rows, and returns the rows on every smaller result.
C7_AsStated ==
    event.fetched =>
        /\ event.kind \in FailedKinds <=> event.nrows = MAX_EVENTS_BEHIND + 1
        /\ FetchedResult

\* A catch-up fetch returned exactly MAX_EVENTS_BEHIND rows and the subscribe
\* failed.
C7_Witness ==
    /\ event.fetched
    /\ event.kind = "subscribe_failed"
    /\ event.nrows = MAX_EVENTS_BEHIND

\* The updates of the last fan-out that connection c is to receive: all of
\* them but the one whose stream_update raised on c.
Expected(c) ==
    IF event.fault[2] = c THEN RemoveAt(event.updates, event.fault[1]) ELSE event.updates

\* C8: when a call of stream_update raised during a fan-out, every live
\* connection still got every other update of the fan-out (sent if the stream
\* is replicating, buffered if it is connecting), the fetch of the stream
\* counts (last_token advanced), and the pass went on to the next stream that
\* has rows to fetch.
C8_DeliveryFailureIsolated ==
    (event.kind = "poke_fan_out" /\ event.fault # <<0, 0>>) =>
        LET s == event.stream
            j == FirstPending(event.idx + 1, last_token, upto_token)
        IN  /\ \A c \in Range(event.live) :
                 /\ s \in replication_streams[c] =>
                        IsSuffix(RdataLines(s, Expected(c), "live", 0), sent[c])
                 /\ (s \notin replication_streams[c] /\ s \in connecting_streams[c]) =>
                        IsSuffix(Expected(c), pending_rdata[c][s])
            /\ last_token[s] = event.current_token
            /\ (~event.restarted /\ j # 0) => \E k \in 1..Len(loops) : loops[k].idx = j

\* stream_update raised on one connection for one of two updates, a second
\* connection replicates the stream, and a later stream has rows to fetch.
C8_Witness ==
    /\ event.kind = "poke_fan_out"
    /\ event.fault # <<0, 0>>
    /\ Len(event.updates) >= 2
    /\ \E c \in Range(event.live) :
          c # event.fault[2] /\ event.stream \in replication_streams[c]
    /\ \E k \in 1..Len(loops) : loops[k].idx > event.idx

\* C9: after the fetch of a stream failed in a pass, the pass goes on: the
\* next stream that has rows to fetch is being fetched.
C9_FetchErrorIsolated ==
    event.kind = "poke_fetch_failed" =>
        LET j == FirstPending(event.idx + 1, last_token, upto_token)
        IN  j # 0 => \E k \in 1..Len(loops) : loops[k].idx = j

\* C10: after a failed fetch of the poke loop, last_token and upto_token of
\* the stream are what they were when the fetch was issued.
C10_FailedFetchKeepsTokens ==
    event.kind = "poke_fetch_failed" =>
        /\ last_token[event.stream] = event.from_token
        /\ upto_token[event.stream] = event.current_token

\* A fetch of the poke loop failed.
C10_Witness ==
    /\ event.kind = "poke_fetch_failed"
    /\ event.from_token < event.current_token

\* C11: at every suspension point, for every connection, no stream name is in
\* both connecting_streams and replication_streams, whatever the interleaving
\* of subscribes, re-subscribes, failures and deliveries of the poke loop.
C11_OneSetPerStream ==
    \A c \in Conns : connecting_streams[c] \cap replication_streams[c] = {}

\* A re-subscribe is suspended at its fetch on a connection that has already
\* been sent a POSITION for the stream.
C11_Witness ==
    \E c \in Conns : \E rec \in inflight[c] :
        /\ rec.sub >= 2
        /\ rec.stream \in connecting_streams[c]
        /\ \E i \in 1..Len(sent[c]) :
              sent[c][i].cmd = POSITION /\ sent[c][i].stream = rec.stream

\* The last step was a subscribe with the NOW token that went through.
NowSubscribed == event.kind = "subscribed" /\ event.now

\* What a subscribe with the NOW token leaves behind: no fetch, no historical
\* RDATA, POSITION with upto_token as the last line sent, the stream
\* replicating and not connecting, and no invocation of it suspended.
NowSubscribeDone ==
    LET c == event.conn
        s == event.stream
    IN  /\ ~event.fetched
        /\ event.updates = <<>>
        /\ \A i \in (event.before + 1)..Len(sent[c]) : sent[c][i].via # "hist"
        /\ Len(sent[c]) > event.before
        /\ sent[c][Len(sent[c])].cmd = POSITION
        /\ sent[c][Len(sent[c])].stream = s
        /\ sent[c][Len(sent[c])].token = upto_token[s]
        /\ s \in replication_streams[c]
        /\ s \notin connecting_streams[c]
        /\ \A rec \in inflight[c] : rec.sub # event.sub

\* A REPLICATE line with the NOW token for a stream of the streamer ends in
\* the step in which it is received, as a subscribe that went through.
NowNeverSuspends ==
    \A c \in Conns : \A s \in StreamNames :
        on_REPLICATE(c, s, "NOW") => NowSubscribed'

\* C12: a subscribe with the NOW token issues no history fetch, sends no
\* historical RDATA, sends POSITION with the stream's upto_token in the step
\* that receives the line, and leaves the stream replicating; it has no
\* suspension point.
C12_NowSubscribe == [](NowSubscribed => NowSubscribeDone) /\ [][NowNeverSuspends]_vars

\* A subscribe with the NOW token went through while a poke pass was
\* suspended at a fetch of the stream.
C12_Witness ==
    /\ NowSubscribed
    /\ event.current_token >= 1
    /\ \E k \in 1..Len(loops) : StreamList[loops[k].idx] = event.stream

\* A connection that was lost is not in streamer.connections, and no fan-out
\* calls its stream_update.
LostIsGone ==
    \A c \in Conns :
        status[c] = "lost" =>
            /\ c \notin Range(connections)
            /\ event.kind = "poke_fan_out" => c \notin Range(event.live)

\* The presence handler was asked to clear the syncs of a connection once if
\* the connection was lost, and never otherwise.
ClearedOnce ==
    \A c \in Conns : syncs_cleared[c] = (IF status[c] = "lost" THEN 1 ELSE 0)

\* No step gives a lost connection a line to send or a row to buffer, other
\* than the end of a subscribe of its own that was suspended.
NoDeliveryToLost ==
    \A c \in Conns :
        (status[c] = "lost" /\ inflight'[c] = inflight[c]) =>
            /\ sent'[c] = sent[c]
            /\ pending_rdata'[c] = pending_rdata[c]

\* C13: after a connection disconnects, the poke loop delivers nothing more to
\* it (it is in the connections of no later fan-out), and the presence handler
\* is asked to clear the syncs of that connection exactly once.
C13_Disconnect == [](LostIsGone /\ ClearedOnce) /\ [][NoDeliveryToLost]_vars

\* The first half of C13 alone, which both files keep.
C13_NoDeliveryAfterLoss == [](LostIsGone) /\ [][NoDeliveryToLost]_vars

\* After the failure of a pass the running flag is released, no invocation is
\* left in the loop, and last_token of the stream is what the failed fetch
\* started from.
FailureReleases ==
    event.kind = "poke_fetch_failed" =>
        /\ ~is_looping
        /\ ~pending_updates
        /\ loops = <<>>
        /\ last_token[event.stream] = event.from_token

\* The wake-up that followed the failure of a pass started a new pass: every
\* upto_token advanced, the running flag set, and the first stream that has
\* rows to fetch (the failed one, or one before it in the list) being fetched
\* from its unchanged last_token.
RetryStarted ==
    event.kind = "poke_retry" =>
        /\ upto_token = advance_current_token
        /\ last_token[event.stream] = event.from_token
        /\ is_looping
        /\ Len(loops) = 1
        /\ loops[1].idx <= event.idx
        /\ loops[1].from_token = last_token[StreamList[loops[1].idx]]
        /\ loops[1].current_token = upto_token[StreamList[loops[1].idx]]

\* The wake-up that followed the failure of a pass was ignored: only by
\* tcp/resource.py, when no connection is registered; nothing changed.
IgnoredOnlyUnheard ==
    event.kind = "poke_ignored" =>
        /\ impl = TCP_PACKAGE
        /\ connections = <<>>
        /\ ~is_looping
        /\ loops = <<>>
        /\ last_token[event.stream] = event.from_token

\* The running flag is never set with no invocation suspended in the loop.
NeverStuck == is_looping => loops # <<>>

\* C14 as amended: after a pass ended with an exception the running flag is
\* released and the loop is never stuck; the next wake-up starts a new pass
\* that fetches from the unchanged last_token, unless the streamer of
\* tcp/resource.py has no connection registered: it ignores the wake-up, and
\* the retry waits for a wake-up that finds a connection.
C14_SelfHealing == FailureReleases /\ NeverStuck /\ RetryStarted /\ IgnoredOnlyUnheard

\* C14 as stated: the next wake-up after a failed pass always starts a pass.
C14_AsStated ==
    /\ FailureReleases /\ NeverStuck /\ RetryStarted
    /\ event.kind # "poke_ignored"

\* The wake-up after a failed pass started the pass that fetches the failed
\* stream again.
C14_Witness ==
    /\ event.kind = "poke_retry"
    /\ Len(loops) = 1
    /\ loops[1].idx = event.idx
    /\ loops[1].from_token = event.from_token

\* The connection of the last step, which received a line of BadLines, was
\* sent ERROR as its last line and is being closed.
BadLineAnswered ==
    event.kind = "bad_line" =>
        LET c == event.conn
        IN  /\ Len(sent[c]) = event.before + 1
            /\ sent[c][Len(sent[c])].cmd = ERROR
            /\ closing[c]

\* A step that receives a line of BadLines on a connection changes nothing
\* of the poke loop and nothing of any other connection.
BadLineContained ==
    event'.kind = "bad_line" =>
        /\ UNCHANGED <<last_token, upto_token, is_looping, pending_updates, loops>>
        /\ \A d \in Conns \ {event'.conn} :
              /\ sent'[d] = sent[d]
              /\ status'[d] = status[d]
              /\ closing'[d] = closing[d]
              /\ replication_streams'[d] = replication_streams[d]
              /\ connecting_streams'[d] = connecting_streams[d]
              /\ pending_rdata'[d] = pending_rdata[d]
              /\ (d \in Range(connections) <=> d \in Range(connections'))

\* C15: every inbound line that is an unknown command, a malformed line, or a
\* line whose handler raises makes the connection send ERROR and then close;
\* other connections and the poke loop are unaffected.
C15_BadLineGetsError == [](BadLineAnswered) /\ [][BadLineContained]_vars

\* The second half of C15 alone.
C15_BadLineIsContained == [][BadLineContained]_vars

\* C16: a subscribe that fails (an unregistered stream, a token that is no
\* number, a catch-up fetch that raises or has fallen behind) sends ERROR and
\* nothing else, sends no POSITION, and leaves the stream in neither
\* connecting_streams nor replication_streams, also when the stream was
\* replicating before the REPLICATE.
C16_FailedSubscribeLeavesNothing ==
    event.kind = "subscribe_failed" =>
        LET c == event.conn
            s == event.stream
        IN  /\ Len(sent[c]) = event.before + 1
            /\ sent[c][Len(sent[c])].cmd = ERROR
            /\ \A i \in 1..Len(sent[c]) :
                 ~(sent[c][i].cmd = POSITION /\ sent[c][i].sub = event.sub)
            /\ s \notin connecting_streams[c]
            /\ s \notin replication_streams[c]

\* C17: _batch_updates returns a list of the same length with the same rows
\* in the same order; entry i has the token None exactly when i is not the
\* last entry and its token equals the token of entry i + 1, and keeps its
\* token otherwise (the last entry always does); the empty list gives the
\* empty list; [(1,a),(1,b),(2,c),(3,d),(3,e)] gives
\* [(None,a),(1,b),(2,c),(None,d),(3,e)].
C17_BatchUpdates ==
    batch.returned =>
        LET u == batch.arg
            n == batch.ret
        IN  /\ Len(n) = Len(u)
            /\ \A i \in 1..Len(u) :
                 /\ n[i][2] = u[i][2]
                 /\ n[i][1] = NoToken <=> (i < Len(u) /\ u[i][1] = u[i + 1][1])
                 /\ n[i][1] # NoToken => n[i][1] = u[i][1]
            /\ u = <<>> => n = <<>>
            /\ u = DocExample =>
                 n = <<<<NoToken, "a">>, <<1, "b">>, <<2, "c">>,
                       <<NoToken, "d">>, <<3, "e">>>>

\* _batch_updates returned from the list of its docstring, which has runs of
\* equal tokens at its start and at its end.
C17_Witness ==
    /\ batch.returned
    /\ batch.arg = DocExample
    /\ batch.ret[1][1] = NoToken
    /\ batch.ret[5][1] = 3

\* The step is a step of a subscribe: on_REPLICATE up to its suspension or to
\* its end, or the return or failure of its catch-up fetch.
SubscribeStep ==
    \/ nlines' # nlines
    \/ inflight' # inflight

\* The step is no step of the poke loop: a subscribe, a write of the store, a
\* connect or disconnect, or a line that is no command.
NotOfPokeLoop ==
    \/ SubscribeStep
    \/ store_pos' # store_pos
    \/ status' # status
    \/ event'.kind = "bad_line"

TokensUnchanged == last_token' = last_token /\ upto_token' = upto_token

SubscribeKeepsTokens == NotOfPokeLoop => TokensUnchanged

\* C18: a subscribe, whatever token the client names and whether its catch-up
\* succeeds or fails, leaves last_token and upto_token of every stream as
\* they were; only steps of the poke loop change them.
C18_SubscribeKeepsTokens == [][SubscribeKeepsTokens]_vars

\* A catch-up fetch has returned rows, read from a token other than
\* last_token, on a stream the poke loop has moved.
C18_Witness ==
    /\ event.kind = "subscribed"
    /\ event.nrows > 0
    /\ event.from_token # last_token[event.stream]
    /\ last_token[event.stream] > 0

\* Row row of stream s has been handed to sendLine of connection c as RDATA.
Transmitted(c, s, row) ==
    \E i \in 1..Len(sent[c]) :
        /\ IsRdata(sent[c][i])
        /\ sent[c][i].stream = s
        /\ sent[c][i].data = json_dumps(Tail(row))

\* Connection c is connected, no send to it has raised, and no subscribe of
\* it to s is suspended.
StaysConnected(c, s) ==
    /\ status[c] = "open"
    /\ ~closing[c]
    /\ \A rec \in inflight[c] : rec.stream # s

\* Every row of s after the token a successful subscribe of c served from,
\* up to last_token, has been transmitted to c.
NothingLost(c, s) ==
    \A p \in 1..Len(sent[c]) :
        (sent[c][p].cmd = POSITION /\ sent[c][p].stream = s) =>
            \A row \in Range(RowsBetween(s, sent[c][p].since, last_token[s])) :
                Transmitted(c, s, row)

C20_PositionCoversRdata ==
    \A c \in Conns : \A p \in 1..Len(sent[c]) :
        sent[c][p].cmd = POSITION =>
            \A i \in 1..(p - 1) :
                (IsRdata(sent[c][i]) /\ sent[c][i].sub = sent[c][p].sub
                     /\ sent[c][i].via \in {"hist", "flush"})
                    => sent[c][i].token <= sent[c][p].token

====
